---- MODULE Spec2Model ----
(***************************************************************************)
(* The DSPy optimization worker (src/renderer/dspy/dspy_optimizer.py):     *)
(* main() as a sequential state machine over the pipeline steps, the       *)
(* line-delimited message protocol on stdout, and the helper functions     *)
(* each step calls.                                                        *)
(***************************************************************************)
EXTENDS Integers, Sequences, FiniteSets, TLC

\* ------------------------------------------------------------------------
\* Bounds of the model
\* ------------------------------------------------------------------------
\* longest train dataset of a configuration document
MaxTrain == 2
\* longest validation dataset of a configuration document
MaxVal == 1
\* longest dataset that carries an element lacking a field
MaxBadLen == 1
\* longest trainset handed to the auto-split on its own
MaxSplitLen == 10

\* ------------------------------------------------------------------------
\* Python values
\* ------------------------------------------------------------------------
\* a key that a dict does not hold
NoKey == "<no key>"

\* dict.get(key, default)
Get(v, default) == IF v = NoKey THEN default ELSE v

\* no helper function is called on its own
NoCall == [fn |-> "none"]

\* the results dictionary of extract_optimized_results before the walk
NoResults == [predictors |-> <<>>, demos |-> <<>>]

\* no exception pending
NoExc == [cls |-> "none", msg |-> <<>>]

Raise(cls, msg) == [cls |-> cls, msg |-> msg]

\* str(e): a KeyError prints the repr of its key, the others their message
KeyError(key) == Raise("KeyError", <<"'", key, "'">>)

\* a JSON scalar is <<kind, text>> with the text as the document spells it; str()
\* of the parsed value: True, False and None for true, false and null, the text
\* itself for a string and the digits for an integer
Str(v) ==
    CASE v[1] = "bool" -> IF v[2] = "true" THEN "True" ELSE "False"
      [] v[1] = "null" -> "None"
      [] OTHER -> v[2]

Range(s) == {s[i] : i \in 1..Len(s)}

Min(a, b) == IF a < b THEN a ELSE b

\* ------------------------------------------------------------------------
\* Message protocol
\* ------------------------------------------------------------------------
log_progress(message) == [type |-> "progress", message |-> message]

log_error(message, tb) == [type |-> "error", message |-> message, traceback |-> tb]

\* ------------------------------------------------------------------------
\* Model provisioner
\* ------------------------------------------------------------------------
Providers == {"ollama", "openai", "anthropic"}

\* mutant: an unsupported provider falls back to the local one
setup_language_model_fallback(model_config, lmFails) ==
    LET provider == Get(model_config.provider, "ollama")
        first == <<log_progress(<<"Configuring ", provider, " with model">>)>>
    IN  IF lmFails
        THEN [exc |-> Raise("Exception", <<"dspy.LM failed">>),
              msgs |-> first, lm |-> "none", configured |-> 0]
        ELSE [exc |-> NoExc,
              msgs |-> first \o <<log_progress(<<"Language model configured successfully">>)>>,
              lm |-> IF provider \in {"ollama", "openai", "anthropic"}
                     THEN provider ELSE "ollama",
              configured |-> 1]

\* setup_language_model(config); lmFails: the dspy.LM constructor raises
setup_language_model(model_config, lmFails) ==
    LET provider == Get(model_config.provider, "ollama")
        first == <<log_progress(<<"Configuring ", provider, " with model">>)>>
    IN  IF provider \notin Providers
        THEN [exc |-> Raise("ValueError",
                        <<"Unsupported provider: ", provider, ". Use ", "'", "ollama", "'",
                          ", ", "'", "openai", "'", ", or ", "'", "anthropic", "'", ".">>),
              msgs |-> first, lm |-> "none", configured |-> 0]
        ELSE IF lmFails
        THEN [exc |-> Raise("Exception", <<"dspy.LM failed">>),
              msgs |-> first, lm |-> "none", configured |-> 0]
        ELSE [exc |-> NoExc,
              msgs |-> first \o <<log_progress(<<"Language model configured successfully">>)>>,
              lm |-> provider, configured |-> 1]

\* ------------------------------------------------------------------------
\* Dataset preparer
\* ------------------------------------------------------------------------
\* mutant: the output is stored as the question and the input as the answer
ExampleSwapped(q, a) == [question |-> a, answer |-> q, inputs |-> {"question"}]

\* dspy.Example(question=q, answer=a).with_inputs('question')
Example(q, a) == [question |-> q, answer |-> a, inputs |-> {"question"}]

\* mutant: positions are counted from one
ItemIndexOneBased(i) == i

\* the index enumerate() gives the item at (1-based) position i
ItemIndex(i) == i - 1

\* the for loop of prepare_dataset from (1-based) position i on
RECURSIVE PrepareLoop(_, _, _, _)
PrepareLoop(dataset_raw, dataset_name, i, examples) ==
    IF i > Len(dataset_raw)
    THEN [exc |-> NoExc, examples |-> examples,
          msgs |-> <<log_progress(<<"Prepared ", ToString(Len(examples)),
                                    " examples for ", dataset_name>>)>>]
    ELSE LET item == dataset_raw[i] IN
         IF "input" \notin DOMAIN item \/ "output" \notin DOMAIN item
         THEN [exc |-> Raise("ValueError",
                         <<dataset_name, "[", ToString(ItemIndex(i)), "]",
                           " missing 'input' or 'output' field">>),
               examples |-> <<>>, msgs |-> <<>>]
         ELSE PrepareLoop(dataset_raw, dataset_name, i + 1,
                          Append(examples, Example(Str(item.input), Str(item.output))))

\* mutant: the emptiness check is dropped
EmptyCheckDropped(dataset_raw) == FALSE

\* not dataset_raw or len(dataset_raw) == 0
EmptyCheck(dataset_raw) == Len(dataset_raw) = 0

prepare_dataset(dataset_raw, dataset_name) ==
    IF EmptyCheck(dataset_raw)
    THEN [exc |-> Raise("ValueError", <<dataset_name, " is empty">>),
          examples |-> <<>>, msgs |-> <<>>]
    ELSE PrepareLoop(dataset_raw, dataset_name, 1, <<>>)

\* mutant: the split keeps 70% for training
SplitIdxSeventy(n) == (n * 7) \div 10

\* int(len(trainset) * 0.8)
SplitIdx(n) == (n * 4) \div 5

\* the else branch of "Handle validation set" in main
AutoSplit(trainset) ==
    LET split_idx == SplitIdx(Len(trainset)) IN
    IF split_idx < Len(trainset)
    THEN LET v == SubSeq(trainset, split_idx + 1, Len(trainset))
             t == SubSeq(trainset, 1, split_idx)
         IN  [trainset |-> t, valset |-> v,
              msgs |-> <<log_progress(<<"Auto-split dataset: ", ToString(Len(t)),
                                        " train, ", ToString(Len(v)), " val">>)>>]
    ELSE [trainset |-> trainset, valset |-> trainset,
          msgs |-> <<log_progress(
                       <<"Dataset too small for split, using same data for train and val">>)>>]

\* ------------------------------------------------------------------------
\* Metric factory
\* ------------------------------------------------------------------------
\* a text is a sequence of characters
Whitespace == {" ", "\t", "\n"}

RECURSIVE LStrip(_)
LStrip(s) == IF s # <<>> /\ Head(s) \in Whitespace THEN LStrip(Tail(s)) ELSE s

RECURSIVE RStrip(_)
RStrip(s) ==
    IF s # <<>> /\ s[Len(s)] \in Whitespace THEN RStrip(SubSeq(s, 1, Len(s) - 1)) ELSE s

\* str.strip()
Strip(s) == RStrip(LStrip(s))

\* custom metric sources a configuration may carry
CodeEmpty == <<>>
CodeBlank == <<" ", "\n">>
CodeNoDef == <<"x", "=", "1">>
CodeNotCallable == <<"metric_function", "=", "1">>
CodeRaises == <<"1", "/", "0">>
CodeOk == <<" ", "def", " ", "metric_function", "\n">>

\* exec(custom_code, exec_globals) followed by the two checks on metric_function
ExecOutcome(custom_code) ==
    IF custom_code = CodeRaises THEN Raise("ZeroDivisionError", <<"division by zero">>)
    ELSE IF "metric_function" \notin Range(custom_code)
    THEN Raise("ValueError", <<"Custom metric code must define 'metric_function'">>)
    ELSE IF "def" \notin Range(custom_code)
    THEN Raise("ValueError", <<"metric_function must be a callable function">>)
    ELSE NoExc

\* mutant: only the empty text is rejected, the text is not stripped
BlankCodeNoStrip(custom_code) == custom_code = <<>>

\* not custom_code or not custom_code.strip()
BlankCode(custom_code) == custom_code = <<>> \/ Strip(custom_code) = <<>>

MetricTypes == {"exact_match", "contains", "semantic_f1", "custom"}

\* str.lower() of one character, on the letters the texts are made of
LowerChar(c) ==
    CASE c = "A" -> "a"
      [] c = "P" -> "p"
      [] OTHER -> c

\* str.lower()
Lower(s) == [i \in 1..Len(s) |-> LowerChar(s[i])]

\* expected in predicted, on strings
Contains(expected, predicted) ==
    \E i \in 0..(Len(predicted) - Len(expected)) :
        SubSeq(predicted, i + 1, i + Len(expected)) = expected

\* a Prediction without an answer attribute
NoAnswer == [has_answer |-> FALSE, answer |-> <<>>]

\* mutant: the two answers are compared without being stripped
exact_match_metric_nostrip(case_sensitive, example, pred) ==
    IF ~pred.has_answer THEN FALSE
    ELSE IF case_sensitive # "true"
         THEN Lower(example.answer) = Lower(pred.answer)
         ELSE example.answer = pred.answer

\* exact_match_metric(example, pred) with case_sensitive from the closure
exact_match_metric(case_sensitive, example, pred) ==
    IF ~pred.has_answer THEN FALSE
    ELSE IF case_sensitive # "true"
         THEN Lower(Strip(example.answer)) = Lower(Strip(pred.answer))
         ELSE Strip(example.answer) = Strip(pred.answer)

\* contains_metric(example, pred) with case_sensitive from the closure
contains_metric(case_sensitive, example, pred) ==
    IF ~pred.has_answer THEN FALSE
    ELSE IF case_sensitive # "true"
         THEN Contains(Lower(Strip(example.answer)), Lower(Strip(pred.answer)))
         ELSE Contains(example.answer, pred.answer)

\* calling the function create_metric returned
ApplyMetric(m, example, pred) ==
    IF m.kind = "contains"
    THEN contains_metric(m.case_sensitive, example, pred)
    ELSE exact_match_metric(m.case_sensitive, example, pred)

\* no metric function was built
NoMetric == [kind |-> "none", case_sensitive |-> "false"]

\* the exact_match branch of create_metric
ExactMatchMetric(metric_config) ==
    [exc |-> NoExc, msgs |-> <<log_progress(<<"Creating metric: ", "exact_match">>)>>,
     metric |-> [kind |-> "exact_match",
                 case_sensitive |-> Get(metric_config.case_sensitive, "false")]]

\* create_metric(metric_config); semF1: dspy.evaluate exports SemanticF1
create_metric(metric_config, semF1) ==
    LET metric_type == Get(metric_config.type, "exact_match")
        first == <<log_progress(<<"Creating metric: ", metric_type>>)>>
    IN  IF metric_type = "exact_match" THEN ExactMatchMetric(metric_config)
        ELSE IF metric_type = "contains"
        THEN [exc |-> NoExc, msgs |-> first,
              metric |-> [kind |-> "contains",
                          case_sensitive |-> Get(metric_config.case_sensitive, "false")]]
        ELSE IF metric_type = "semantic_f1"
        THEN IF semF1
             THEN [exc |-> NoExc, msgs |-> first,
                   metric |-> [kind |-> "semantic_f1", case_sensitive |-> "false"]]
             ELSE LET r == ExactMatchMetric([type |-> "exact_match", case_sensitive |-> NoKey,
                                             code |-> <<>>])
                  IN  [r EXCEPT !.msgs =
                         first \o <<log_progress(
                            <<"SemanticF1 not available, falling back to exact match">>)>>
                         \o r.msgs]
        ELSE IF metric_type = "custom"
        THEN LET custom_code == metric_config.code IN
             IF BlankCode(custom_code)
             THEN [exc |-> Raise("ValueError",
                             <<"Custom metric requires 'code' field with Python function">>),
                   msgs |-> first, metric |-> NoMetric]
             ELSE LET e == ExecOutcome(custom_code)
                      compiling == first \o <<log_progress(<<"Compiling custom metric code">>)>>
                  IN  IF e # NoExc
                      THEN [exc |-> Raise("ValueError",
                                      <<"Failed to compile custom metric: ">> \o e.msg),
                            msgs |-> compiling,
                            metric |-> NoMetric]
                      ELSE [exc |-> NoExc,
                            msgs |-> compiling \o
                                <<log_progress(<<"Custom metric compiled successfully">>)>>,
                            metric |-> [kind |-> "custom", case_sensitive |-> "false"]]
        ELSE [exc |-> Raise("ValueError",
                        <<"Unknown metric type: ", metric_type, ". Use ",
                          "'", "exact_match", "'", ", ", "'", "contains", "'", ", ",
                          "'", "semantic_f1", "'", ", or ", "'", "custom", "'", ".">>),
              msgs |-> first, metric |-> NoMetric]

\* ------------------------------------------------------------------------
\* Program factory
\* ------------------------------------------------------------------------
ProgramTypes == {"predict", "chain_of_thought", "react"}

ProgramClass(program_type) ==
    CASE program_type = "predict" -> "SimpleQA"
      [] program_type = "chain_of_thought" -> "ChainOfThoughtQA"
      [] program_type = "react" -> "ReActQA"

\* mutant: an unknown type is replaced without reporting the substitution
create_dspy_program_silent(program_type) ==
    IF program_type \in ProgramTypes
    THEN [msgs |-> <<log_progress(<<"Creating DSPy program: ", program_type>>)>>,
          program |-> ProgramClass(program_type)]
    ELSE [msgs |-> <<log_progress(<<"Creating DSPy program: ", "predict">>)>>,
          program |-> ProgramClass("predict")]

\* create_dspy_program(program_type); an unknown type recurses once with 'predict'
create_dspy_program(program_type) ==
    LET first == <<log_progress(<<"Creating DSPy program: ", program_type>>)>> IN
    IF program_type \in ProgramTypes
    THEN [msgs |-> first, program |-> ProgramClass(program_type)]
    ELSE [msgs |-> first
                   \o <<log_progress(<<"Unknown program type '", program_type,
                                       "', using 'predict'">>)>>
                   \o <<log_progress(<<"Creating DSPy program: ", "predict">>)>>,
          program |-> ProgramClass("predict")]

\* ------------------------------------------------------------------------
\* Configuration documents
\* ------------------------------------------------------------------------
Absent == [present |-> FALSE]

\* the i-th raw pair of a dataset; the pair at position bad lacks its output
RawItem(i, bad) ==
    IF i = bad THEN [input |-> <<"str", "q" \o ToString(i)>>]
    ELSE [input |-> <<"str", "q" \o ToString(i)>>, output |-> <<"num", ToString(i)>>]

RawDataset(n, bad) == [i \in 1..n |-> RawItem(i, bad)]

Datasets(maxLen) ==
    {Absent}
    \cup {[present |-> TRUE, items |-> RawDataset(n, 0)] : n \in 0..maxLen}
    \cup {[present |-> TRUE, items |-> RawDataset(n, n)] : n \in 1..Min(maxLen, MaxBadLen)}

ModelConfigs ==
    {Absent} \cup {[present |-> TRUE, provider |-> p] : p \in Providers \cup {NoKey, "azure"}}

MetricConfigs ==
    {Absent}
    \cup {[present |-> TRUE, type |-> t, case_sensitive |-> NoKey, code |-> CodeEmpty] :
             t \in {"exact_match", "contains", "semantic_f1", "bleu"}}
    \cup {[present |-> TRUE, type |-> "custom", case_sensitive |-> NoKey, code |-> c] :
             c \in {CodeEmpty, CodeBlank, CodeNoDef, CodeNotCallable, CodeRaises, CodeOk}}

Documents ==
    [model_config : ModelConfigs,
     train_dataset : Datasets(MaxTrain),
     val_dataset : Datasets(MaxVal),
     metric_config : MetricConfigs,
     program_type : ProgramTypes \cup {NoKey, "tree_of_thought"},
     optimizer : {"BootstrapFewShot", "MIPRO", "MIPROv2", NoKey, "COPRO"}]

\* json.loads of a document that holds no key at all
EmptyDoc ==
    [model_config |-> Absent, train_dataset |-> Absent, val_dataset |-> Absent,
     metric_config |-> Absent, program_type |-> NoKey, optimizer |-> NoKey]

\* what the parent process writes to stdin
StdinInputs ==
    {[text |-> t, doc |-> EmptyDoc] : t \in {"empty", "blank", "malformed"}}
    \cup {[text |-> "json", doc |-> d] : d \in Documents}

\* ------------------------------------------------------------------------
\* main(): state
\* ------------------------------------------------------------------------
VARIABLES
    pc,          \* position of main()
    stdin,       \* the input stream
    config,      \* the parsed configuration document
    msgs,        \* the lines written to stdout, in order
    entered,     \* the pipeline steps entered so far, in order
    completed,   \* the pipeline steps that returned normally
    exc,         \* the exception that left the try block
    failed,      \* the step that raised it
    exitStatus,  \* the process exit status, -1 while running
    lm,          \* the active model installed by dspy.configure
    lmBindings,  \* how often dspy.configure was called
    trainset, valset, metric, program,
    calls,       \* the optimizer compile and evaluator invocations, in order
    saved_path,
    compiled,    \* the predictors of the compiled program
    extracted,   \* what extract_optimized_results returned
    call,        \* a helper function called on its own: its name and arguments
    ret          \* and what it returned

vars == <<pc, stdin, config, msgs, entered, completed, exc, failed, exitStatus,
          lm, lmBindings, trainset, valset, metric, program, calls, saved_path,
          compiled, extracted, call, ret>>

\* the steps of main() in source order
PipelineOrder ==
    <<"ReadConfig", "ImportDSPy", "ProvisionModel", "PrepareData", "BuildMetric",
      "BuildProgram", "RunOptimizer", "Evaluate", "ExtractResults", "Persist", "Terminal">>

StepIndex(step) == CHOOSE i \in 1..Len(PipelineOrder) : PipelineOrder[i] = step

\* mutant: the program is built before the metric
NextStepSwapped(step) ==
    CASE step = "PrepareData" -> "BuildProgram"
      [] step = "BuildProgram" -> "BuildMetric"
      [] step = "BuildMetric" -> "RunOptimizer"
      [] step = "Terminal" -> "SysExit0"
      [] OTHER -> PipelineOrder[StepIndex(step) + 1]

\* mutant: the datasets are prepared before the language model is set up
NextStepDataFirst(step) ==
    CASE step = "ImportDSPy" -> "PrepareData"
      [] step = "PrepareData" -> "ProvisionModel"
      [] step = "ProvisionModel" -> "BuildMetric"
      [] step = "Terminal" -> "SysExit0"
      [] OTHER -> PipelineOrder[StepIndex(step) + 1]

\* the statement that follows a step that returned normally
NextStep(step) ==
    IF step = "Terminal" THEN "SysExit0" ELSE PipelineOrder[StepIndex(step) + 1]

\* mutant: a bare except clause, which catches SystemExit too
ExceptCatchesAll(cls) == TRUE

\* except Exception as e
ExceptCatches(cls) == cls # "SystemExit"

\* mutant: the exception is swallowed and main() carries on
AfterRaiseContinue(step) == NextStep(step)

\* where control goes when a step raises inside the try block: every step lies in
\* the one try statement of main(), and what the steps raise derives from Exception
AfterRaise(step) == "except"

Init ==
    /\ pc = "ReadConfig"
    /\ stdin \in StdinInputs
    /\ config = EmptyDoc
    /\ msgs = <<>>
    /\ entered = <<>>
    /\ completed = {}
    /\ exc = NoExc
    /\ failed = "none"
    /\ exitStatus = -1
    /\ lm = "none"
    /\ lmBindings = 0
    /\ trainset = <<>>
    /\ valset = <<>>
    /\ metric = NoMetric
    /\ program = "none"
    /\ calls = <<>>
    /\ saved_path = "none"
    /\ compiled = <<>>
    /\ extracted = NoResults
    /\ call = NoCall
    /\ ret = NoCall

\* the step raised e after writing out
Raises(step, e, out) ==
    /\ pc' = AfterRaise(step)
    /\ exc' = e
    /\ failed' = step
    /\ msgs' = msgs \o out
    /\ entered' = Append(entered, step)
    /\ UNCHANGED <<completed, exitStatus>>

\* the step returned normally after writing out
Returns(step, out) ==
    /\ pc' = NextStep(step)
    /\ msgs' = msgs \o out
    /\ entered' = Append(entered, step)
    /\ completed' = completed \cup {step}
    /\ UNCHANGED <<exc, failed, exitStatus>>

\* ------------------------------------------------------------------------
\* main(): the steps
\* ------------------------------------------------------------------------
\* Step 1: read and parse the configuration
ReadConfig ==
    /\ pc = "ReadConfig"
    /\ LET reading == <<log_progress(<<"Reading configuration from stdin...">>)>>
           parsing == reading \o <<log_progress(<<"Parsing configuration...">>)>>
       IN  IF stdin.text \in {"empty", "blank"}
           THEN /\ Raises("ReadConfig",
                          Raise("ValueError", <<"No configuration received on stdin">>),
                          reading)
                /\ UNCHANGED config
           ELSE IF stdin.text = "malformed"
           THEN /\ Raises("ReadConfig",
                          Raise("JSONDecodeError", <<"Expecting value">>), parsing)
                /\ UNCHANGED config
           ELSE /\ Returns("ReadConfig",
                           parsing \o <<log_progress(<<"Configuration loaded successfully">>)>>)
                /\ config' = stdin.doc
    /\ UNCHANGED <<stdin, lm, lmBindings, trainset, valset, metric, program, calls,
                   saved_path, compiled, extracted, call, ret>>

\* Step 2: import the optimization library
ImportDSPy ==
    /\ pc = "ImportDSPy"
    /\ \E installed \in BOOLEAN :
         LET importing == <<log_progress(<<"Importing DSPy library...">>)>> IN
         IF installed
         THEN Returns("ImportDSPy", importing \o <<log_progress(<<"DSPy version loaded">>)>>)
         ELSE Raises("ImportDSPy",
                     Raise("ImportError",
                           <<"DSPy library not found. Please install it with: pip install dspy-ai">>),
                     importing)
    /\ UNCHANGED <<stdin, config, lm, lmBindings, trainset, valset, metric, program, calls,
                   saved_path, compiled, extracted, call, ret>>

\* Step 3: set up the language model
ProvisionModel ==
    /\ pc = "ProvisionModel"
    /\ LET first == <<log_progress(<<"Setting up language model...">>)>> IN
       IF ~config.model_config.present
       THEN /\ Raises("ProvisionModel", KeyError("model_config"), first)
            /\ UNCHANGED <<lm, lmBindings>>
       ELSE \E lmFails \in BOOLEAN :
              LET r == setup_language_model(config.model_config, lmFails) IN
              /\ IF r.exc # NoExc
                 THEN Raises("ProvisionModel", r.exc, first \o r.msgs)
                 ELSE Returns("ProvisionModel", first \o r.msgs)
              /\ lm' = IF r.configured > 0 THEN r.lm ELSE lm
              /\ lmBindings' = lmBindings + r.configured
    /\ UNCHANGED <<stdin, config, trainset, valset, metric, program, calls,
                   saved_path, compiled, extracted, call, ret>>

\* mutant: a validation dataset counts as given as soon as the key is there
ValDatasetKeyPresent(cfg) == cfg.val_dataset.present

\* 'val_dataset' in config and config['val_dataset']
ValDatasetGiven(cfg) == cfg.val_dataset.present /\ Len(cfg.val_dataset.items) > 0

\* Step 4: prepare the datasets and handle the validation set
PrepareData ==
    /\ pc = "PrepareData"
    /\ LET first == <<log_progress(<<"Preparing datasets...">>)>> IN
       IF ~config.train_dataset.present
       THEN /\ Raises("PrepareData", KeyError("train_dataset"), first)
            /\ UNCHANGED <<trainset, valset>>
       ELSE LET t == prepare_dataset(config.train_dataset.items, "train_dataset") IN
            IF t.exc # NoExc
            THEN /\ Raises("PrepareData", t.exc, first \o t.msgs)
                 /\ UNCHANGED <<trainset, valset>>
            ELSE IF ValDatasetGiven(config)
            THEN LET v == prepare_dataset(config.val_dataset.items, "val_dataset") IN
                 IF v.exc # NoExc
                 THEN /\ Raises("PrepareData", v.exc, first \o t.msgs \o v.msgs)
                      /\ trainset' = t.examples
                      /\ UNCHANGED valset
                 ELSE /\ Returns("PrepareData", first \o t.msgs \o v.msgs)
                      /\ trainset' = t.examples
                      /\ valset' = v.examples
            ELSE LET a == AutoSplit(t.examples) IN
                 /\ Returns("PrepareData", first \o t.msgs \o a.msgs)
                 /\ trainset' = a.trainset
                 /\ valset' = a.valset
    /\ UNCHANGED <<stdin, config, lm, lmBindings, metric, program, calls,
                   saved_path, compiled, extracted, call, ret>>

\* Step 5: create the metric
BuildMetric ==
    /\ pc = "BuildMetric"
    /\ LET first == <<log_progress(<<"Creating evaluation metric...">>)>> IN
       IF ~config.metric_config.present
       THEN /\ Raises("BuildMetric", KeyError("metric_config"), first)
            /\ UNCHANGED metric
       ELSE \E semF1 \in BOOLEAN :
              LET r == create_metric(config.metric_config, semF1) IN
              IF r.exc # NoExc
              THEN /\ Raises("BuildMetric", r.exc, first \o r.msgs)
                   /\ UNCHANGED metric
              ELSE /\ Returns("BuildMetric", first \o r.msgs)
                   /\ metric' = r.metric
    /\ UNCHANGED <<stdin, config, lm, lmBindings, trainset, valset, program, calls,
                   saved_path, compiled, extracted, call, ret>>

\* Step 6: create the program; ctorFails: the dspy predictor constructor raises
BuildProgram ==
    /\ pc = "BuildProgram"
    /\ \E ctorFails \in BOOLEAN :
         LET r == create_dspy_program(Get(config.program_type, "predict")) IN
         IF ctorFails
         THEN /\ Raises("BuildProgram", Raise("Exception", <<"dspy.Predict failed">>), r.msgs)
              /\ UNCHANGED program
         ELSE /\ Returns("BuildProgram",
                         r.msgs \o <<log_progress(<<"DSPy program created: ", r.program>>)>>)
              /\ program' = r.program
    /\ UNCHANGED <<stdin, config, lm, lmBindings, trainset, valset, metric, calls,
                   saved_path, compiled, extracted, call, ret>>

\* most demonstrations the optimizer attaches to a predictor
MaxDemos == 1

\* compiled_program.named_predictors(): (name, class) of the predictors each
\* program class of create_dspy_program holds
NamedPredictors(program_class) ==
    CASE program_class = "SimpleQA" -> <<[name |-> "predict", type |-> "Predict"]>>
      [] program_class = "ChainOfThoughtQA" ->
            <<[name |-> "generate_answer.predict", type |-> "Predict"]>>
      [] program_class = "ReActQA" ->
            <<[name |-> "generate_answer.react", type |-> "Predict"],
              [name |-> "generate_answer.extract.predict", type |-> "Predict"]>>

\* the demonstrations of a predictor that holds d of them
Demos(d) == [i \in 1..d |-> Example("dq" \o ToString(i), "da" \o ToString(i))]

\* what optimizer.compile returns: the program with d demonstrations attached to
\* each of its predictors
CompiledProgram(program_class, d) ==
    [k \in 1..Len(NamedPredictors(program_class)) |->
        [name |-> NamedPredictors(program_class)[k].name,
         type |-> NamedPredictors(program_class)[k].type,
         demos |-> Demos(d)]]

\* mutant: an unknown optimizer kind falls back to the bootstrap optimizer
OptimizerRunnerFallback(optimizer_type) ==
    IF optimizer_type \in {"MIPRO", "MIPROv2"} THEN "run_mipro" ELSE "run_bootstrap_fewshot"

\* the function main() dispatches an optimizer kind to
OptimizerRunner(optimizer_type) ==
    IF optimizer_type = "BootstrapFewShot" THEN "run_bootstrap_fewshot"
    ELSE IF optimizer_type \in {"MIPRO", "MIPROv2"} THEN "run_mipro"
    ELSE "none"

\* str(e) of the exception main() raises for an optimizer kind it does not dispatch
UnknownOptimizerError(optimizer_type) ==
    Raise("ValueError", <<"Unknown optimizer: ", optimizer_type>>)

\* run_bootstrap_fewshot / run_mipro up to the call of optimizer.compile
CompileCall(runner, t, v) ==
    IF runner = "run_bootstrap_fewshot"
    THEN [op |-> "compile", by |-> "BootstrapFewShot", train |-> Len(t), val |-> 0]
    ELSE [op |-> "compile", by |-> "MIPROv2", train |-> Len(t), val |-> Len(v)]

RunnerName(runner) == IF runner = "run_bootstrap_fewshot" THEN "BootstrapFewShot" ELSE "MIPROv2"

\* Step 7: run the optimization; compileFails: optimizer.compile raises; d: the
\* number of demonstrations the compiled program carries per predictor
RunOptimizer ==
    /\ pc = "RunOptimizer"
    /\ LET optimizer_type == Get(config.optimizer, "BootstrapFewShot")
           runner == OptimizerRunner(optimizer_type)
           first == <<log_progress(<<"Starting ", optimizer_type, " optimization...">>)>>
           upto == first \o
                <<log_progress(<<"Starting ", RunnerName(runner), " optimization">>),
                  log_progress(<<"Config: ">>),
                  log_progress(<<"Compiling program with ", RunnerName(runner), "...">>)>>
       IN  IF runner = "none"
           THEN /\ Raises("RunOptimizer", UnknownOptimizerError(optimizer_type), first)
                /\ UNCHANGED <<calls, compiled>>
           ELSE /\ calls' = Append(calls, CompileCall(runner, trainset, valset))
                /\ \/ /\ Raises("RunOptimizer", Raise("Exception", <<"compile failed">>), upto)
                      /\ UNCHANGED compiled
                   \/ \E d \in 0..MaxDemos :
                        /\ Returns("RunOptimizer",
                                   upto \o <<log_progress(<<RunnerName(runner),
                                                            " optimization complete">>)>>)
                        /\ compiled' = CompiledProgram(program, d)
    /\ UNCHANGED <<stdin, config, lm, lmBindings, trainset, valset, metric, program,
                   saved_path, extracted, call, ret>>

\* Step 8: evaluate the compiled program; evalFails: the evaluator (or the
\* formatting of its score) raises
Evaluate ==
    /\ pc = "Evaluate"
    /\ \E evalFails \in BOOLEAN :
         LET upto == <<log_progress(<<"Evaluating optimized program...">>),
                       log_progress(<<"Evaluating program on ", ToString(Len(valset)),
                                      " examples">>)>>
         IN  /\ calls' = Append(calls, [op |-> "evaluate", by |-> "Evaluate",
                                        train |-> 0, val |-> Len(valset)])
             /\ IF evalFails
                THEN Raises("Evaluate", Raise("Exception", <<"evaluation failed">>), upto)
                ELSE Returns("Evaluate",
                             upto \o <<log_progress(<<"Evaluation complete: score = ">>)>>)
    /\ UNCHANGED <<stdin, config, lm, lmBindings, trainset, valset, metric, program,
                   saved_path, compiled, extracted, call, ret>>

\* how many demonstrations of a predictor are listed: module.demos[:10]
DisplayLimit == 10

\* mutant: the slice is dropped and every demonstration is listed
ShownAll(demos) == Len(demos)

\* len(module.demos[:10])
Shown(demos) == Min(DisplayLimit, Len(demos))

\* demo_dict of the demonstrations demos[1..upTo] of the predictor called name
DemoDicts(name, demos, upTo) ==
    [i \in 1..upTo |-> [predictor |-> name, input |-> demos[i].question,
                        output |-> demos[i].answer]]

\* the for loop of extract_optimized_results from predictor i on; an exception is
\* raised in predictor failAt.pred after failAt.demo of its demonstrations were
\* appended (failAt.pred = 0: no exception)
RECURSIVE ExtractLoop(_, _, _, _)
ExtractLoop(compiled_program, i, failAt, results) ==
    IF i > Len(compiled_program)
    THEN [results |-> results,
          msgs |-> <<log_progress(<<"Extracted ", ToString(Len(results.predictors)),
                                    " predictors, ", ToString(Len(results.demos)),
                                    " demos">>)>>]
    ELSE LET module == compiled_program[i]
             shown == Shown(module.demos)
         IN  IF i = failAt.pred
             THEN [results |-> [results EXCEPT !.demos =
                                   @ \o DemoDicts(module.name, module.demos,
                                                  Min(failAt.demo, shown))],
                   msgs |-> <<log_progress(<<"Warning: Could not fully extract results: ">>)>>]
             ELSE ExtractLoop(compiled_program, i + 1, failAt,
                     [predictors |-> Append(results.predictors,
                                            [name |-> module.name, type |-> module.type,
                                             demo_count |-> Len(module.demos)]),
                      demos |-> results.demos
                                \o DemoDicts(module.name, module.demos, shown)])

\* extract_optimized_results(compiled_program)
extract_optimized_results(compiled_program, failAt) ==
    LET r == ExtractLoop(compiled_program, 1, failAt, NoResults) IN
    [results |-> r.results,
     msgs |-> <<log_progress(<<"Extracting optimized components">>)>> \o r.msgs]

\* the places where the walk over a compiled program can raise
FailPoints(compiled_program) ==
    {[pred |-> 0, demo |-> 0]}
    \cup UNION {{[pred |-> k, demo |-> j] : j \in 0..Len(compiled_program[k].demos)} :
                k \in 1..Len(compiled_program)}

\* Step 9: extract the results
ExtractResults ==
    /\ pc = "ExtractResults"
    /\ \E failAt \in FailPoints(compiled) :
         LET r == extract_optimized_results(compiled, failAt) IN
         /\ Returns("ExtractResults",
                    <<log_progress(<<"Extracting optimization results...">>)>> \o r.msgs)
         /\ extracted' = r.results
    /\ UNCHANGED <<stdin, config, lm, lmBindings, trainset, valset, metric, program, calls,
                   saved_path, compiled, call, ret>>

\* os.path.abspath(save_path)
AbsPath(save_path) == "/cwd/" \o save_path

\* config.get('save_path', './dspy_compiled_program'): the documents carry no
\* save_path
DefaultSavePath == "./dspy_compiled_program"

\* mutant: a failed save returns the absolute path all the same
save_compiled_program_abs(save_path, saveFails) ==
    [msgs |-> <<log_progress(<<"Saving compiled program to ", save_path>>),
                IF saveFails
                THEN log_progress(<<"Warning: Failed to save program: ">>)
                ELSE log_progress(<<"Program saved successfully to ",
                                    AbsPath(save_path)>>)>>,
     path |-> AbsPath(save_path)]

\* save_compiled_program; saveFails: makedirs or program.save raises
save_compiled_program(save_path, saveFails) ==
    LET first == <<log_progress(<<"Saving compiled program to ", save_path>>)>> IN
    IF saveFails
    THEN [msgs |-> first \o <<log_progress(<<"Warning: Failed to save program: ">>)>>,
          path |-> save_path]
    ELSE [msgs |-> first \o <<log_progress(<<"Program saved successfully to ",
                                             AbsPath(save_path)>>)>>,
          path |-> AbsPath(save_path)]

\* Step 10: save the compiled program
Persist ==
    /\ pc = "Persist"
    /\ \E saveFails \in BOOLEAN :
         LET r == save_compiled_program(DefaultSavePath, saveFails) IN
         /\ Returns("Persist", r.msgs)
         /\ saved_path' = r.path
    /\ UNCHANGED <<stdin, config, lm, lmBindings, trainset, valset, metric, program, calls,
                   compiled, extracted, call, ret>>

\* mutant: the two dataset sizes are reported under each other's name
SuccessResultSwapped ==
    [type |-> "success",
     optimized_demos |-> extracted.demos,
     predictors |-> extracted.predictors,
     compiled_program_path |-> saved_path,
     dataset_sizes |-> [train |-> Len(valset), val |-> Len(trainset)],
     optimizer |-> Get(config.optimizer, "BootstrapFewShot"),
     program_type |-> Get(config.program_type, "predict")]

\* the success result of step 11
SuccessResult ==
    [type |-> "success",
     optimized_demos |-> extracted.demos,
     predictors |-> extracted.predictors,
     compiled_program_path |-> saved_path,
     dataset_sizes |-> [train |-> Len(trainset), val |-> Len(valset)],
     optimizer |-> Get(config.optimizer, "BootstrapFewShot"),
     program_type |-> Get(config.program_type, "predict")]

\* mutant: the closing progress line is written after the result
FinalMessagesLate(result) == <<result, log_progress(<<"Optimization complete!">>)>>

\* what step 11 writes, in order
FinalMessages(result) == <<log_progress(<<"Optimization complete!">>), result>>

\* Step 11: return the success result; dumpFails: float(validation_score) or
\* json.dumps(success_result) raises
Terminal ==
    /\ pc = "Terminal"
    /\ \E dumpFails \in BOOLEAN :
         IF dumpFails
         THEN Raises("Terminal", Raise("TypeError", <<"not JSON serializable">>),
                     <<log_progress(<<"Optimization complete!">>)>>)
         ELSE Returns("Terminal", FinalMessages(SuccessResult))
    /\ UNCHANGED <<stdin, config, lm, lmBindings, trainset, valset, metric, program, calls,
                   saved_path, compiled, extracted, call, ret>>

\* mutant: the except block exits with status 0
ExitCodeZero(path) == 0

\* the argument of sys.exit on each path
ExitCode(path) == IF path = "success" THEN 0 ELSE 1

\* sys.exit(0) inside the try block: it raises SystemExit
SysExit0 ==
    /\ pc = "SysExit0"
    /\ IF ExceptCatches("SystemExit")
       THEN /\ pc' = "except"
            /\ exc' = Raise("SystemExit", <<"0">>)
            /\ failed' = "SysExit0"
            /\ UNCHANGED exitStatus
       ELSE /\ pc' = "exited"
            /\ exitStatus' = ExitCode("success")
            /\ UNCHANGED <<exc, failed>>
    /\ UNCHANGED <<stdin, config, msgs, entered, completed, lm, lmBindings, trainset,
                   valset, metric, program, calls,
                   saved_path, compiled, extracted, call, ret>>

\* the except block: report the error
ExceptHandler ==
    /\ pc = "except"
    /\ msgs' = Append(msgs, log_error(exc.msg, exc.cls))
    /\ pc' = "SysExit1"
    /\ UNCHANGED <<stdin, config, entered, completed, exc, failed, exitStatus, lm,
                   lmBindings, trainset, valset, metric, program, calls,
                   saved_path, compiled, extracted, call, ret>>

\* sys.exit(1) in the except block
SysExit1 ==
    /\ pc = "SysExit1"
    /\ pc' = "exited"
    /\ exitStatus' = ExitCode("error")
    /\ UNCHANGED <<stdin, config, msgs, entered, completed, exc, failed, lm, lmBindings,
                   trainset, valset, metric, program, calls,
                   saved_path, compiled, extracted, call, ret>>

Next ==
    \/ ReadConfig
    \/ ImportDSPy
    \/ ProvisionModel
    \/ PrepareData
    \/ BuildMetric
    \/ BuildProgram
    \/ RunOptimizer
    \/ Evaluate
    \/ ExtractResults
    \/ Persist
    \/ Terminal
    \/ SysExit0
    \/ ExceptHandler
    \/ SysExit1

Spec == Init /\ [][Next]_vars

\* ------------------------------------------------------------------------
\* The same worker on documents with long train datasets
\* ------------------------------------------------------------------------
LongDocuments ==
    [model_config : {[present |-> TRUE, provider |-> "ollama"]},
     train_dataset : Datasets(MaxSplitLen),
     val_dataset : Datasets(MaxVal),
     metric_config : {[present |-> TRUE, type |-> "exact_match", case_sensitive |-> NoKey,
                       code |-> CodeEmpty]},
     program_type : {NoKey},
     optimizer : {"BootstrapFewShot", "MIPROv2"}]

InitLong ==
    /\ pc = "ReadConfig"
    /\ stdin \in {[text |-> "json", doc |-> d] : d \in LongDocuments}
    /\ config = EmptyDoc
    /\ msgs = <<>>
    /\ entered = <<>>
    /\ completed = {}
    /\ exc = NoExc
    /\ failed = "none"
    /\ exitStatus = -1
    /\ lm = "none"
    /\ lmBindings = 0
    /\ trainset = <<>>
    /\ valset = <<>>
    /\ metric = NoMetric
    /\ program = "none"
    /\ calls = <<>>
    /\ saved_path = "none"
    /\ compiled = <<>>
    /\ extracted = NoResults
    /\ call = NoCall
    /\ ret = NoCall

SpecLong == InitLong /\ [][Next]_vars

\* ------------------------------------------------------------------------
\* prepare_dataset called on its own
\* ------------------------------------------------------------------------
\* longest raw dataset handed to prepare_dataset
MaxRawLen == 3

\* raw pairs: complete ones with string, number, boolean and null values, and
\* ones that lack the output, the input, or both
RawItems ==
    {[input |-> <<"str", "q1">>, output |-> <<"str", "a1">>],
     [input |-> <<"num", "7">>, output |-> <<"bool", "true">>],
     [input |-> <<"str", "q2">>, output |-> <<"null", "null">>],
     [input |-> <<"str", "q3">>],
     [output |-> <<"str", "a4">>],
     [id |-> <<"num", "5">>]}

RawSequences == UNION {[1..n -> RawItems] : n \in 0..MaxRawLen}

\* main() is not running
NotRunning ==
    /\ stdin = [text |-> "empty", doc |-> EmptyDoc]
    /\ config = EmptyDoc
    /\ msgs = <<>>
    /\ entered = <<>>
    /\ completed = {}
    /\ exc = NoExc
    /\ failed = "none"
    /\ exitStatus = -1
    /\ lm = "none"
    /\ lmBindings = 0
    /\ trainset = <<>>
    /\ valset = <<>>
    /\ metric = NoMetric
    /\ program = "none"
    /\ calls = <<>>
    /\ saved_path = "none"
    /\ compiled = <<>>
    /\ extracted = NoResults

InitPrepare ==
    /\ pc = "call"
    /\ NotRunning
    /\ call \in [fn : {"prepare_dataset"}, dataset_raw : RawSequences,
                 dataset_name : {"train_dataset", "val_dataset"}]
    /\ ret = NoCall

\* prepare_dataset(dataset_raw, dataset_name) runs and returns or raises
PrepareCall ==
    /\ pc = "call"
    /\ call.fn = "prepare_dataset"
    /\ LET r == prepare_dataset(call.dataset_raw, call.dataset_name) IN
       ret' = [fn |-> "prepare_dataset", exc |-> r.exc, examples |-> r.examples,
               msgs |-> r.msgs]
    /\ pc' = "returned"
    /\ UNCHANGED <<stdin, config, msgs, entered, completed, exc, failed, exitStatus, lm,
                   lmBindings, trainset, valset, metric, program, calls, saved_path,
                   compiled, extracted, call>>

NextPrepare == PrepareCall

SpecPrepare == InitPrepare /\ [][NextPrepare]_vars

\* ------------------------------------------------------------------------
\* A metric called on its own
\* ------------------------------------------------------------------------
\* longest generated answer text
MaxTextLen == 2

Paris == <<"P", "a", "r", "i", "s">>

ParisPadded == <<" ", "p", "a", "r", "i", "s", " ">>

\* answer texts: every text of up to MaxTextLen characters over an upper-case
\* letter, a lower-case letter and the blank, and two spellings of one word
Texts ==
    UNION {[1..n -> {"A", "a", " "}] : n \in 0..MaxTextLen} \cup {Paris, ParisPadded}

\* the metric configurations whose metric compares two answer strings
StringMetricConfigs ==
    [present : {TRUE}, type : {"exact_match", "contains", NoKey},
     case_sensitive : {NoKey, "true", "false"}, code : {CodeEmpty}]

InitMetric ==
    /\ pc = "call"
    /\ NotRunning
    /\ call \in [fn : {"metric"}, metric_config : StringMetricConfigs,
                 example : [answer : Texts],
                 pred : {NoAnswer} \cup [has_answer : {TRUE}, answer : Texts]]
    /\ ret = NoCall

\* create_metric(metric_config) builds the metric, which is then called on
\* (example, pred)
MetricCall ==
    /\ pc = "call"
    /\ call.fn = "metric"
    /\ LET r == create_metric(call.metric_config, TRUE) IN
       ret' = [fn |-> "metric", kind |-> r.metric.kind,
               score |-> ApplyMetric(r.metric, call.example, call.pred)]
    /\ pc' = "returned"
    /\ UNCHANGED <<stdin, config, msgs, entered, completed, exc, failed, exitStatus, lm,
                   lmBindings, trainset, valset, metric, program, calls, saved_path,
                   compiled, extracted, call>>

NextMetric == MetricCall

SpecMetric == InitMetric /\ [][NextMetric]_vars

\* ------------------------------------------------------------------------
\* extract_optimized_results called on its own
\* ------------------------------------------------------------------------
\* most demonstrations attached to one predictor of the program walked
MaxExtractDemos == 12

\* a compiled program whose k-th predictor holds counts[k] demonstrations
CompiledWith(program_class, counts) ==
    [k \in 1..Len(NamedPredictors(program_class)) |->
        [name |-> NamedPredictors(program_class)[k].name,
         type |-> NamedPredictors(program_class)[k].type,
         demos |-> Demos(counts[k])]]

\* the compiled programs of every program class with up to MaxExtractDemos
\* demonstrations per predictor
CompiledPrograms ==
    UNION {{CompiledWith(c, counts) :
              counts \in [1..Len(NamedPredictors(c)) -> 0..MaxExtractDemos]} :
           c \in {"SimpleQA", "ChainOfThoughtQA", "ReActQA"}}

InitExtract ==
    /\ pc = "call"
    /\ NotRunning
    /\ call \in [fn : {"extract_optimized_results"}, compiled_program : CompiledPrograms]
    /\ ret = NoCall

\* extract_optimized_results(compiled_program) runs and returns; failAt: where
\* the walk raises, if it does
ExtractCall ==
    /\ pc = "call"
    /\ call.fn = "extract_optimized_results"
    /\ \E failAt \in FailPoints(call.compiled_program) :
         LET r == extract_optimized_results(call.compiled_program, failAt) IN
         ret' = [fn |-> "extract_optimized_results", results |-> r.results,
                 msgs |-> r.msgs]
    /\ pc' = "returned"
    /\ UNCHANGED <<stdin, config, msgs, entered, completed, exc, failed, exitStatus, lm,
                   lmBindings, trainset, valset, metric, program, calls, saved_path,
                   compiled, extracted, call>>

NextExtract == ExtractCall

SpecExtract == InitExtract /\ [][NextExtract]_vars

\* ------------------------------------------------------------------------
\* Properties
\* ------------------------------------------------------------------------
\* the nine stages of the orchestrator, in pipeline order
SpecStages ==
    <<"ReadConfig", "ProvisionModel", "PrepareData", "BuildMetric", "BuildProgram",
      "RunOptimizer", "Evaluate", "ExtractResults", "Persist">>

IsTerminal(m) == m.type \in {"success", "error"}

IsSuccess(m) == m.type = "success"

IsError(m) == m.type = "error"

IsSpecStage(step) == step \in Range(SpecStages)

NumSuccess == Len(SelectSeq(msgs, IsSuccess))

NumError == Len(SelectSeq(msgs, IsError))

Occurrences(seq, x) == Cardinality({i \in 1..Len(seq) : seq[i] = x})

\* the document holds a train dataset with at least one pair
HasTrain(doc) == doc.train_dataset.present /\ Len(doc.train_dataset.items) > 0

\* the document holds a validation dataset with at least one pair
HasVal(doc) == doc.val_dataset.present /\ Len(doc.val_dataset.items) > 0

\* C1: a run of main() emits exactly one terminal message: while it runs at most
\* one success or error message has been written (never both, never two of a
\* kind), and when the process has exited exactly one has been written, whatever
\* the configuration and whichever step raised.
C1_OneTerminalMessage ==
    /\ NumSuccess + NumError <= 1
    /\ pc = "exited" => NumSuccess + NumError = 1

C1_Witness ==
    /\ pc = "exited"
    /\ failed = "Evaluate"
    /\ NumError = 1
    /\ NumSuccess = 0

\* C2: the stages are entered in the order ReadConfig, ProvisionModel,
\* PrepareData, BuildMetric, BuildProgram, RunOptimizer, Evaluate,
\* ExtractResults, Persist: the stages entered so far are a prefix of that order
\* (so none is entered twice or out of turn), every stage before the one entered
\* last has completed, and a success message is written only when all nine have
\* completed.
C2_StagesInOrder ==
    LET s == SelectSeq(entered, IsSpecStage) IN
    /\ Len(s) <= Len(SpecStages)
    /\ s = SubSeq(SpecStages, 1, Len(s))
    /\ \A i \in 1..Len(s) : \A j \in 1..(i - 1) : s[j] \in completed
    /\ NumSuccess > 0 => Range(SpecStages) \subseteq completed

C2_Witness ==
    /\ NumSuccess = 1
    /\ SelectSeq(entered, IsSpecStage) = SpecStages
    /\ pc = "exited"

\* C3: once a step has raised, main() is in its except block or past it: the
\* step that raised is the last one entered and was entered once (no later
\* stage runs, no retry), no success message is written, and from the except
\* block on the last message is the error message.
C3_ExceptionGoesToError ==
    exc # NoExc =>
        /\ pc \in {"except", "SysExit1", "exited"}
        /\ entered # <<>>
        /\ entered[Len(entered)] = failed
        /\ Occurrences(entered, failed) = 1
        /\ NumSuccess = 0
        /\ pc # "except" => NumError = 1 /\ IsError(msgs[Len(msgs)])

C3_Witness ==
    /\ exc # NoExc
    /\ failed = "BuildMetric"
    /\ pc = "exited"
    /\ entered = <<"ReadConfig", "ImportDSPy", "ProvisionModel", "PrepareData", "BuildMetric">>

\* C4: the terminal message is the last message: a success or error message is
\* only ever the last line written, so every progress message precedes it and
\* nothing follows it up to the exit of the process.
C4_TerminalIsLast ==
    \A i \in 1..Len(msgs) : IsTerminal(msgs[i]) => i = Len(msgs)

C4_Witness ==
    /\ pc = "exited"
    /\ Len(msgs) > 1
    /\ IsSuccess(msgs[Len(msgs)])
    /\ \A i \in 1..(Len(msgs) - 1) : msgs[i].type = "progress"

\* C5: the exit status is 0 exactly when the terminal message written was
\* success and 1 exactly when it was error, and the process exits only after
\* that message was written.
C5_ExitStatus ==
    /\ exitStatus \in {-1, 0, 1}
    /\ pc = "exited" <=> exitStatus # -1
    /\ exitStatus = 0 <=> (pc = "exited" /\ NumSuccess = 1 /\ NumError = 0)
    /\ exitStatus = 1 <=> (pc = "exited" /\ NumError = 1 /\ NumSuccess = 0)

C5_Witness ==
    /\ exitStatus = 0
    /\ NumSuccess = 1

\* C6: a configuration without a train dataset (the key missing, or the list
\* empty) never gets a success message and never enters RunOptimizer or
\* Evaluate; the process exits with status 1 after one error message, and when
\* PrepareData is reached that error is the one about the train dataset.
C6_NoTrainDataset ==
    ~HasTrain(stdin.doc) =>
        /\ NumSuccess = 0
        /\ "RunOptimizer" \notin Range(entered)
        /\ "Evaluate" \notin Range(entered)
        /\ pc = "exited" => exitStatus = 1 /\ NumError = 1
        /\ "PrepareData" \in Range(entered) =>
              /\ failed = "PrepareData"
              /\ exc \in {KeyError("train_dataset"),
                          Raise("ValueError", <<"train_dataset", " is empty">>)}
              /\ pc = "exited" => msgs[Len(msgs)] = log_error(exc.msg, exc.cls)

C6_Witness ==
    /\ stdin.text = "json"
    /\ stdin.doc.train_dataset.present
    /\ ~HasTrain(stdin.doc)
    /\ failed = "PrepareData"
    /\ pc = "exited"

\* the trainset prepare_dataset builds from the document's train dataset
PreparedTrain(doc) ==
    [i \in 1..Len(doc.train_dataset.items) |->
        Example(doc.train_dataset.items[i].input[2], doc.train_dataset.items[i].output[2])]

\* C7: auto-split. When the document supplies no validation set and PrepareData
\* has completed on a prepared trainset of n examples, the train set is its
\* first floor(0.8 n) examples and the validation set the rest, both in the
\* original order, so that train followed by validation is the prepared
\* sequence; for n = 10 the sizes are 8 and 2.
C7_AutoSplit ==
    ("PrepareData" \in completed /\ ~HasVal(config)) =>
        LET orig == PreparedTrain(config)
            n == Len(orig)
            k == Len(trainset)
        IN  /\ 5 * k <= 4 * n
            /\ 4 * n < 5 * (k + 1)
            /\ trainset = SubSeq(orig, 1, k)
            /\ valset = SubSeq(orig, k + 1, n)
            /\ trainset \o valset = orig
            /\ n = 10 => k = 8 /\ Len(valset) = 2

C7_Witness ==
    /\ "PrepareData" \in completed
    /\ ~HasVal(config)
    /\ Len(config.train_dataset.items) = 10
    /\ Len(trainset) = 8
    /\ Len(valset) = 2
    /\ trainset[8] = Example("q8", "8")
    /\ valset[1] = Example("q9", "9")

TooSmallMessage ==
    log_progress(<<"Dataset too small for split, using same data for train and val">>)

\* C8: auto-split of a dataset too small to split. With a prepared trainset of
\* one example and no validation set, once PrepareData has completed both the
\* train set and the validation set are that one-element set, and the fallback
\* was reported by a progress message (no exception was raised).
C8_SingleExampleReused ==
    ("PrepareData" \in completed /\ ~HasVal(config)
        /\ Len(config.train_dataset.items) = 1) =>
        /\ trainset = PreparedTrain(config)
        /\ valset = PreparedTrain(config)
        /\ TooSmallMessage \in Range(msgs)
        /\ exc = NoExc \/ failed # "PrepareData"

SupportedOptimizers == {"BootstrapFewShot", "MIPRO", "MIPROv2"}

\* the optimizer kind main() reads from the document
OptimizerOf(doc) == Get(doc.optimizer, "BootstrapFewShot")

UnsupportedOptimizer == stdin.text = "json" /\ OptimizerOf(stdin.doc) \notin SupportedOptimizers

\* C9 as stated: a configuration with an unsupported optimizer kind always
\* fails with an error message that contains the unsupported value, and neither
\* the optimizer's compile nor the evaluator is ever called.
C9_AlwaysNamesOptimizer ==
    UnsupportedOptimizer =>
        /\ calls = <<>>
        /\ NumSuccess = 0
        /\ pc = "exited" =>
              /\ NumError = 1
              /\ OptimizerOf(stdin.doc) \in Range(msgs[Len(msgs)].message)

\* C9 amended: a configuration with an unsupported optimizer kind always fails
\* with one error message and exit status 1, and neither the optimizer's compile
\* nor the evaluator is ever called; when the run reaches RunOptimizer (no
\* earlier step raised), the step raises and the error message contains the
\* unsupported value.
C9_UnsupportedOptimizerFails ==
    UnsupportedOptimizer =>
        /\ calls = <<>>
        /\ NumSuccess = 0
        /\ "Evaluate" \notin Range(entered)
        /\ pc = "exited" => NumError = 1 /\ exitStatus = 1
        /\ "RunOptimizer" \in Range(entered) =>
              /\ failed = "RunOptimizer"
              /\ OptimizerOf(stdin.doc) \in Range(exc.msg)
              /\ pc \in {"SysExit1", "exited"} =>
                    /\ IsError(msgs[Len(msgs)])
                    /\ OptimizerOf(stdin.doc) \in Range(msgs[Len(msgs)].message)

C9_Witness ==
    /\ UnsupportedOptimizer
    /\ failed = "RunOptimizer"
    /\ pc = "exited"
    /\ msgs[Len(msgs)] = log_error(<<"Unknown optimizer: ", "COPRO">>, "ValueError")

\* C10: every unsupported-option error names the offending value and the allowed
\* set: the error message written for an unknown provider, an unknown metric
\* kind or an unknown optimizer kind contains the value and every allowed value.
C10_NamesValueAndAllowedSet ==
    (pc = "exited" /\ NumError = 1 /\ exc.cls = "ValueError") =>
        LET text == Range(msgs[Len(msgs)].message) IN
        /\ (failed = "ProvisionModel"
              /\ Get(config.model_config.provider, "ollama") \notin Providers) =>
                 /\ Get(config.model_config.provider, "ollama") \in text
                 /\ Providers \subseteq text
        /\ (failed = "BuildMetric"
              /\ Get(config.metric_config.type, "exact_match") \notin MetricTypes) =>
                 /\ Get(config.metric_config.type, "exact_match") \in text
                 /\ MetricTypes \subseteq text
        /\ (failed = "RunOptimizer" /\ OptimizerOf(config) \notin SupportedOptimizers) =>
                 /\ OptimizerOf(config) \in text
                 /\ SupportedOptimizers \subseteq text

\* the metric kind create_metric reads from the document
MetricTypeOf(doc) == Get(doc.metric_config.type, "exact_match")

\* the document asks for a custom metric whose code is empty or only whitespace
BlankCustomMetric ==
    /\ stdin.text = "json"
    /\ stdin.doc.metric_config.present
    /\ stdin.doc.metric_config.type = "custom"
    /\ \A i \in 1..Len(stdin.doc.metric_config.code) :
          stdin.doc.metric_config.code[i] \in {" ", "\t", "\n"}

\* C11: a custom metric descriptor whose code text is empty or only whitespace
\* always makes the job fail before any model call: BuildProgram, RunOptimizer
\* and Evaluate are never entered, neither compile nor the evaluator is called,
\* no success message is written, the process exits with one error message, and
\* when BuildMetric is reached it raises the "requires 'code'" error.
C11_BlankCustomCodeFails ==
    BlankCustomMetric =>
        /\ NumSuccess = 0
        /\ calls = <<>>
        /\ {"BuildProgram", "RunOptimizer", "Evaluate"} \cap Range(entered) = {}
        /\ pc = "exited" => NumError = 1 /\ exitStatus = 1
        /\ "BuildMetric" \in Range(entered) =>
              /\ failed = "BuildMetric"
              /\ exc = Raise("ValueError",
                             <<"Custom metric requires 'code' field with Python function">>)

C11_Witness ==
    /\ BlankCustomMetric
    /\ stdin.doc.metric_config.code # <<>>
    /\ failed = "BuildMetric"
    /\ pc = "exited"
    /\ NumError = 1

\* the program kind main() reads from the document
ProgramTypeOf(doc) == Get(doc.program_type, "predict")

SubstitutionMessage(program_type) ==
    log_progress(<<"Unknown program type '", program_type, "', using 'predict'">>)

\* C12: asymmetric factory policy. An unknown program kind does not fail the
\* job: BuildProgram reports the substitution in a progress message, builds the
\* direct-prediction program and main() goes on to RunOptimizer (the step
\* raises only when the library's predictor constructor does). An unknown
\* metric kind always fails the job: no success message, BuildProgram is never
\* entered, and when BuildMetric is reached it raises the unknown-metric error.
C12_AsymmetricFactories ==
    /\ (stdin.text = "json"
          /\ ProgramTypeOf(stdin.doc) \notin {"predict", "chain_of_thought", "react"}
          /\ "BuildProgram" \in Range(entered)) =>
            /\ SubstitutionMessage(ProgramTypeOf(stdin.doc)) \in Range(msgs)
            /\ failed = "BuildProgram" => exc = Raise("Exception", <<"dspy.Predict failed">>)
            /\ failed # "BuildProgram" =>
                  /\ "BuildProgram" \in completed
                  /\ program = "SimpleQA"
                  /\ pc = "RunOptimizer" \/ "RunOptimizer" \in Range(entered)
    /\ (stdin.text = "json" /\ stdin.doc.metric_config.present
          /\ MetricTypeOf(stdin.doc) \notin
                {"exact_match", "contains", "semantic_f1", "custom"}) =>
            /\ NumSuccess = 0
            /\ "BuildProgram" \notin Range(entered)
            /\ pc = "exited" => NumError = 1 /\ exitStatus = 1
            /\ "BuildMetric" \in Range(entered) =>
                  /\ failed = "BuildMetric"
                  /\ exc.cls = "ValueError"
                  /\ exc.msg[1] = "Unknown metric type: "

C12_Witness ==
    /\ stdin.text = "json"
    /\ stdin.doc.program_type = "tree_of_thought"
    /\ program = "SimpleQA"
    /\ NumSuccess = 1
    /\ SubstitutionMessage("tree_of_thought") \in Range(msgs)

\* the walk over the compiled program raised
ExtractWarned ==
    log_progress(<<"Warning: Could not fully extract results: ">>) \in Range(msgs)

\* saving the compiled program raised
SaveWarned == log_progress(<<"Warning: Failed to save program: ">>) \in Range(msgs)

\* the predictors listed in result are the first ones of the compiled program, in
\* order
ListsFirstPredictors(result) ==
    /\ Len(result.predictors) <= Len(compiled)
    /\ \A i \in 1..Len(result.predictors) :
         /\ result.predictors[i].name = compiled[i].name
         /\ result.predictors[i].demo_count = Len(compiled[i].demos)

\* C13: a failure inside ExtractResults or Persist never aborts the job: neither
\* stage is ever the one that raised; the failure shows as a progress warning,
\* the stage completes and the next stage is entered; and when the job has exited
\* after such a warning without a later step raising, exactly one success message
\* and no error message was written, the exit status is 0, the success message
\* lists the predictors walked before the failure (not the one that failed) and,
\* after a failed save, carries the requested path unchanged.
C13_SoftFailuresNeverAbort ==
    /\ failed \notin {"ExtractResults", "Persist"}
    /\ ExtractWarned =>
         /\ "ExtractResults" \in completed
         /\ pc = "Persist" \/ "Persist" \in Range(entered)
    /\ SaveWarned =>
         /\ "Persist" \in completed
         /\ saved_path = DefaultSavePath
         /\ pc = "Terminal" \/ "Terminal" \in Range(entered)
    /\ ((ExtractWarned \/ SaveWarned) /\ pc = "exited" /\ failed = "none") =>
         /\ NumSuccess = 1
         /\ NumError = 0
         /\ exitStatus = 0
         /\ LET result == msgs[Len(msgs)] IN
            /\ IsSuccess(result)
            /\ ListsFirstPredictors(result)
            /\ ExtractWarned => Len(result.predictors) < Len(compiled)
            /\ ~ExtractWarned => Len(result.predictors) = Len(compiled)
            /\ SaveWarned => result.compiled_program_path = DefaultSavePath
            /\ ~SaveWarned => result.compiled_program_path = AbsPath(DefaultSavePath)

C13_Witness ==
    /\ pc = "exited"
    /\ ExtractWarned
    /\ SaveWarned
    /\ NumSuccess = 1
    /\ exitStatus = 0
    /\ Len(compiled) = 2
    /\ Len(msgs[Len(msgs)].predictors) = 1
    /\ Len(msgs[Len(msgs)].optimized_demos) = 1
    /\ msgs[Len(msgs)].compiled_program_path = DefaultSavePath

\* the raw pair holds both fields
HasBothFields(item) == "input" \in DOMAIN item /\ "output" \in DOMAIN item

\* the text of a JSON value as Python prints it
AsString(v) ==
    CASE v = <<"bool", "true">> -> "True"
      [] v = <<"bool", "false">> -> "False"
      [] v = <<"null", "null">> -> "None"
      [] OTHER -> v[2]

\* prepare_dataset has returned or raised
PrepareReturned == pc = "returned" /\ call.fn = "prepare_dataset"

\* C14: for a non-empty raw sequence in which every pair holds both an input and
\* an output, prepare_dataset raises nothing and returns as many Examples as
\* there are pairs, in the same order: the i-th question is the i-th input and
\* the i-th answer the i-th output, both as strings, and exactly the question
\* field is marked as the input field.
C14_PrepareMapsPairs ==
    (/\ PrepareReturned
     /\ Len(call.dataset_raw) > 0
     /\ \A i \in 1..Len(call.dataset_raw) : HasBothFields(call.dataset_raw[i])) =>
        /\ ret.exc = NoExc
        /\ Len(ret.examples) = Len(call.dataset_raw)
        /\ \A i \in 1..Len(call.dataset_raw) :
             /\ ret.examples[i].question = AsString(call.dataset_raw[i].input)
             /\ ret.examples[i].answer = AsString(call.dataset_raw[i].output)
             /\ ret.examples[i].inputs = {"question"}

C14_Witness ==
    /\ PrepareReturned
    /\ Len(call.dataset_raw) = 3
    /\ \A i \in 1..3 : HasBothFields(call.dataset_raw[i])
    /\ call.dataset_raw[1].input = <<"num", "7">>
    /\ call.dataset_raw[2].input = <<"str", "q1">>
    /\ call.dataset_raw[3].input = <<"str", "q2">>
    /\ ret.examples = <<Example("7", "True"), Example("q1", "a1"), Example("q2", "None")>>

\* the positions (from 1) of the raw pairs that lack a field
Offending(dataset_raw) ==
    {i \in 1..Len(dataset_raw) : ~HasBothFields(dataset_raw[i])}

\* the smallest element of a non-empty set of numbers
Smallest(S) == CHOOSE i \in S : \A j \in S : i <= j

\* C15: prepare_dataset raises a ValueError and returns no examples when the raw
\* sequence is empty or when some pair lacks its input or its output; in the
\* latter case the message names the dataset label and the index (counted from
\* zero, as the sequence is indexed) of the first pair that lacks a field.
C15_PrepareValidation ==
    PrepareReturned =>
        /\ Len(call.dataset_raw) = 0 =>
             /\ ret.exc = Raise("ValueError", <<call.dataset_name, " is empty">>)
             /\ ret.examples = <<>>
        /\ Offending(call.dataset_raw) # {} =>
             /\ ret.exc.cls = "ValueError"
             /\ ret.examples = <<>>
             /\ ret.exc.msg[1] = call.dataset_name
             /\ ret.exc.msg[3] = ToString(Smallest(Offending(call.dataset_raw)) - 1)
             /\ ret.exc.msg[5] = " missing 'input' or 'output' field"

C15_Witness ==
    /\ PrepareReturned
    /\ Offending(call.dataset_raw) = {2, 3}
    /\ call.dataset_name = "val_dataset"
    /\ ret.exc = Raise("ValueError", <<"val_dataset", "[", "1", "]",
                                       " missing 'input' or 'output' field">>)
    /\ ret.examples = <<>>

\* C16: in every success message dataset_sizes.train is the size of the train
\* set handed to the optimizer's compile call and dataset_sizes.val the size of
\* the validation set handed to the evaluator; when the document supplies no
\* validation set and n train pairs, they are floor(0.8 n) and the rest, so they
\* sum to n, and 5 train pairs give 4 and 1.
C16_DatasetSizes ==
    \A i \in 1..Len(msgs) :
        IsSuccess(msgs[i]) =>
            LET sizes == msgs[i].dataset_sizes
                n == Len(config.train_dataset.items)
            IN  /\ Len(calls) = 2
                /\ calls[1].op = "compile"
                /\ calls[2].op = "evaluate"
                /\ sizes.train = calls[1].train
                /\ sizes.val = calls[2].val
                /\ ~HasVal(config) =>
                     /\ 5 * sizes.train <= 4 * n
                     /\ 4 * n < 5 * (sizes.train + 1)
                     /\ sizes.train + sizes.val = n
                     /\ n = 5 => sizes.train = 4 /\ sizes.val = 1

C16_Witness ==
    /\ pc = "exited"
    /\ NumSuccess = 1
    /\ ~config.val_dataset.present
    /\ Len(config.train_dataset.items) = 5
    /\ msgs[Len(msgs)].dataset_sizes = [train |-> 4, val |-> 1]
    /\ calls[1].train = 4
    /\ calls[2].val = 1

\* the stages that use the active model
ModelUsers == {"BuildProgram", "RunOptimizer", "Evaluate"}

\* the document names a provider that is not supported
UnsupportedProvider(doc) ==
    /\ doc.model_config.present
    /\ Get(doc.model_config.provider, "ollama") \notin {"ollama", "openai", "anthropic"}

\* C17: the active model is bound at most once in a run, and it is bound exactly
\* when ProvisionModel has completed, to the model of the configured provider;
\* BuildProgram, RunOptimizer and Evaluate are entered only with the binding in
\* place, and no later step binds again. With an unsupported provider no model
\* is ever bound and none of those three stages is entered.
C17_ModelBoundOnce ==
    /\ lmBindings \in {0, 1}
    /\ lmBindings = 1 <=> "ProvisionModel" \in completed
    /\ lmBindings = 1 => lm = Get(config.model_config.provider, "ollama")
    /\ lmBindings = 0 => lm = "none"
    /\ \A step \in ModelUsers :
         (pc = step \/ step \in Range(entered)) => lmBindings = 1
    /\ (stdin.text = "json" /\ UnsupportedProvider(stdin.doc)) =>
         /\ lmBindings = 0
         /\ lm = "none"
         /\ pc \notin ModelUsers
         /\ Range(entered) \cap ModelUsers = {}
         /\ "ProvisionModel" \in Range(entered) => failed = "ProvisionModel"

C17_Witness ==
    /\ pc = "exited"
    /\ NumSuccess = 1
    /\ lmBindings = 1
    /\ lm = "anthropic"
    /\ ModelUsers \subseteq completed

\* the run stopped at an unsupported provider without binding a model
C17_WitnessUnsupported ==
    /\ pc = "exited"
    /\ UnsupportedProvider(config)
    /\ failed = "ProvisionModel"
    /\ lmBindings = 0
    /\ NumError = 1

\* a metric of the given kind has been called
MetricReturned(kind) == pc = "returned" /\ call.fn = "metric" /\ ret.kind = kind

\* the case-sensitive flag of the call is set
CaseSensitive == call.metric_config.case_sensitive = "true"

\* trim, and case-fold unless the case-sensitive flag is set
Normalized(text) == IF CaseSensitive THEN Strip(text) ELSE Lower(Strip(text))

\* C18: the contains metric trims both answers in every mode, case-folds them
\* unless the case-sensitive flag is set, and scores whether the expected answer
\* so normalized occurs in the predicted one; a Prediction without an answer
\* scores false.
C18_ContainsSameNormalization ==
    MetricReturned("contains") =>
        ret.score = IF call.pred.has_answer
                    THEN Contains(Normalized(call.example.answer),
                                  Normalized(call.pred.answer))
                    ELSE FALSE

\* the case-sensitive contains metric scores false although the trimmed expected
\* answer occurs in the trimmed prediction
C18_Divergence ==
    /\ MetricReturned("contains")
    /\ CaseSensitive
    /\ call.example.answer = <<"a", " ">>
    /\ call.pred.has_answer
    /\ call.pred.answer = <<"A", "a">>
    /\ ret.score = FALSE

\* C19: the exact-match metric is case-insensitive unless the case-sensitive
\* flag is set and ignores leading and trailing whitespace: expected "Paris"
\* against predicted " paris " scores true without the flag and false with it,
\* and in both modes two answers that are equal once trimmed score true.
C19_ExactMatchNormalizes ==
    (MetricReturned("exact_match") /\ call.pred.has_answer) =>
        /\ ret.score = (Normalized(call.example.answer) = Normalized(call.pred.answer))
        /\ (call.example.answer = Paris /\ call.pred.answer = ParisPadded) =>
              ret.score = ~CaseSensitive
        /\ Strip(call.example.answer) = Strip(call.pred.answer) => ret.score = TRUE
        /\ (~CaseSensitive /\ Lower(call.example.answer) = Lower(call.pred.answer)) =>
              ret.score = TRUE

C19_Witness ==
    /\ MetricReturned("exact_match")
    /\ call.metric_config.type = NoKey
    /\ call.metric_config.case_sensitive = NoKey
    /\ call.example.answer = Paris
    /\ call.pred.has_answer
    /\ call.pred.answer = ParisPadded
    /\ ret.score = TRUE

\* no defect
NoDefect == [cls |-> "none", head |-> <<>>]

Defect(cls, head) == [cls |-> cls, head |-> head]

\* the error a raw dataset is rejected with, if any
DatasetDefect(items, label) ==
    IF Len(items) = 0 THEN Defect("ValueError", <<label, " is empty">>)
    ELSE IF Offending(items) # {}
    THEN Defect("ValueError", <<label, "[", ToString(Smallest(Offending(items)) - 1), "]">>)
    ELSE NoDefect

\* the defect of the sub-config a stage consumes: the exception class and the
\* leading part of the message it is reported with
StageDefect(doc, stage) ==
    CASE stage = "ProvisionModel" ->
            IF ~doc.model_config.present THEN Defect("KeyError", <<"'", "model_config">>)
            ELSE IF UnsupportedProvider(doc)
            THEN Defect("ValueError", <<"Unsupported provider: ", doc.model_config.provider>>)
            ELSE NoDefect
      [] stage = "PrepareData" ->
            IF ~doc.train_dataset.present THEN Defect("KeyError", <<"'", "train_dataset">>)
            ELSE IF DatasetDefect(doc.train_dataset.items, "train_dataset") # NoDefect
            THEN DatasetDefect(doc.train_dataset.items, "train_dataset")
            ELSE IF HasVal(doc) THEN DatasetDefect(doc.val_dataset.items, "val_dataset")
            ELSE NoDefect
      [] stage = "BuildMetric" ->
            IF ~doc.metric_config.present THEN Defect("KeyError", <<"'", "metric_config">>)
            ELSE IF MetricTypeOf(doc) \notin {"exact_match", "contains", "semantic_f1", "custom"}
            THEN Defect("ValueError", <<"Unknown metric type: ", MetricTypeOf(doc)>>)
            ELSE IF MetricTypeOf(doc) = "custom" /\ doc.metric_config.code \in {<<>>, CodeBlank}
            THEN Defect("ValueError",
                        <<"Custom metric requires 'code' field with Python function">>)
            ELSE IF MetricTypeOf(doc) = "custom" /\ doc.metric_config.code # CodeOk
            THEN Defect("ValueError", <<"Failed to compile custom metric: ">>)
            ELSE NoDefect
      [] stage = "RunOptimizer" ->
            IF OptimizerOf(doc) \notin SupportedOptimizers
            THEN Defect("ValueError", <<"Unknown optimizer: ", OptimizerOf(doc)>>)
            ELSE NoDefect
      [] OTHER -> NoDefect

\* the pipeline stages whose sub-config is defective
DefectiveStages(doc) == {stage \in Range(SpecStages) : StageDefect(doc, stage) # NoDefect}

\* the first of them in pipeline order
EarliestDefective(doc) ==
    CHOOSE stage \in DefectiveStages(doc) :
        \A other \in DefectiveStages(doc) : StepIndex(stage) <= StepIndex(other)

\* the exception or error message text is the one of the defect
Reports(cls, text, defect) ==
    /\ cls = defect.cls
    /\ Len(text) >= Len(defect.head)
    /\ SubSeq(text, 1, Len(defect.head)) = defect.head

\* C20: validation is lazy and staged. When the document is defective in one or
\* more sub-configs, no stage after the earliest stage that consumes a defective
\* sub-config is ever entered, so no later defect is ever reported; once that
\* earliest stage is entered it is the stage that fails, with the exception of
\* its own defect; and the single error message written then carries that
\* defect. (A failure of the environment in a stage before it, such as the
\* library import, ends the run earlier, with no defect reported at all.)
C20_EarliestDefectReported ==
    (stdin.text = "json" /\ DefectiveStages(stdin.doc) # {}) =>
        LET first == EarliestDefective(stdin.doc)
            defect == StageDefect(stdin.doc, first)
        IN  /\ \A i \in 1..Len(entered) : StepIndex(entered[i]) <= StepIndex(first)
            /\ pc \in Range(PipelineOrder) => StepIndex(pc) <= StepIndex(first)
            /\ first \in Range(entered) =>
                 /\ failed = first
                 /\ Reports(exc.cls, exc.msg, defect)
            /\ NumSuccess = 0
            /\ NumError <= 1
            /\ (NumError = 1 /\ failed = first) =>
                 Reports(msgs[Len(msgs)].traceback, msgs[Len(msgs)].message, defect)
            /\ \A stage \in DefectiveStages(stdin.doc) \ {first} :
                 \A i \in 1..Len(msgs) :
                    IsError(msgs[i]) =>
                        ~Reports(msgs[i].traceback, msgs[i].message,
                                 StageDefect(stdin.doc, stage))

C20_Witness ==
    /\ pc = "exited"
    /\ stdin.text = "json"
    /\ DefectiveStages(stdin.doc) = {"ProvisionModel", "PrepareData", "BuildMetric",
                                     "RunOptimizer"}
    /\ UnsupportedProvider(stdin.doc)
    /\ failed = "ProvisionModel"
    /\ NumError = 1
    /\ msgs[Len(msgs)].message[1] = "Unsupported provider: "

\* a valid train dataset with an invalid validation dataset and an unknown metric
\* kind: the validation dataset is reported
C20_WitnessValidation ==
    /\ pc = "exited"
    /\ stdin.text = "json"
    /\ DefectiveStages(stdin.doc) = {"PrepareData", "BuildMetric"}
    /\ failed = "PrepareData"
    /\ NumError = 1
    /\ msgs[Len(msgs)].message[1] = "val_dataset"

\* extract_optimized_results has returned
ExtractReturned == pc = "returned" /\ call.fn = "extract_optimized_results"

\* the demonstrations listed in results for the predictor called name, in order
ListedFor(results, name) == SelectSeq(results.demos, LAMBDA d : d.predictor = name)

\* the smaller of 10 and n
AtMostTen(n) == IF n < 10 THEN n ELSE 10

\* C21: for every predictor that result extraction lists, the demonstrations
\* extracted for it are its first min(10, n) demonstrations in their original
\* order, n being the number attached to it, and its demo_count is n itself;
\* when the walk raised nothing, every predictor of the program is listed.
C21_DemosTruncated ==
    ExtractReturned =>
        LET cp == call.compiled_program
            results == ret.results
        IN  /\ Len(results.predictors) <= Len(cp)
            /\ \A k \in 1..Len(results.predictors) :
                 LET n == Len(cp[k].demos)
                     listed == ListedFor(results, cp[k].name)
                 IN  /\ results.predictors[k].name = cp[k].name
                     /\ results.predictors[k].demo_count = n
                     /\ Len(listed) = AtMostTen(n)
                     /\ \A i \in 1..Len(listed) :
                          /\ listed[i].input = cp[k].demos[i].question
                          /\ listed[i].output = cp[k].demos[i].answer
            /\ log_progress(<<"Warning: Could not fully extract results: ">>)
                 \notin Range(ret.msgs) => Len(results.predictors) = Len(cp)

C21_Witness ==
    /\ ExtractReturned
    /\ Len(call.compiled_program) = 2
    /\ Len(call.compiled_program[1].demos) = 12
    /\ Len(call.compiled_program[2].demos) = 3
    /\ Len(ret.results.predictors) = 2
    /\ ret.results.predictors[1].demo_count = 12
    /\ Len(ListedFor(ret.results, call.compiled_program[1].name)) = 10
    /\ Len(ret.results.demos) = 13
    /\ ret.results.demos[10].input = "dq10"
    /\ ret.results.demos[11].input = "dq1"

\* RunOptimizer is about to run or has been entered
AtRunOptimizer == pc = "RunOptimizer" \/ "RunOptimizer" \in Range(entered)

\* C22: whenever RunOptimizer is entered, the train set handed to the optimizer
\* and the validation set handed to the optimizer and the evaluator both hold at
\* least one example, whether or not the document supplied a validation set.
C22_SetsNonEmpty ==
    AtRunOptimizer => Len(trainset) > 0 /\ Len(valset) > 0

\* the optimizer's compile is called with an empty train set
C22_Divergence ==
    /\ "RunOptimizer" \in Range(entered)
    /\ Len(config.train_dataset.items) = 1
    /\ ~config.val_dataset.present
    /\ trainset = <<>>
    /\ Len(valset) = 1
    /\ Len(calls) > 0
    /\ calls[1].op = "compile"
    /\ calls[1].train = 0

\* what does hold at RunOptimizer: the validation set is never empty, and the
\* train set is empty only after the auto-split of a single train pair
C22_EmptyOnlyAfterSplitOfOne ==
    AtRunOptimizer =>
        /\ Len(valset) > 0
        /\ Len(trainset) = 0 => (~HasVal(config) /\ Len(config.train_dataset.items) = 1)

\* the validation dataset is present in the document but holds no pair
EmptyVal(doc) == doc.val_dataset.present /\ Len(doc.val_dataset.items) = 0

\* the Examples the validation dataset of the document is prepared to
PreparedVal(doc) ==
    [i \in 1..Len(doc.val_dataset.items) |->
        Example(doc.val_dataset.items[i].input[2], doc.val_dataset.items[i].output[2])]

ValEmptyError == <<"val_dataset", " is empty">>

\* C23: a validation dataset that is present but empty is handled as an absent
\* one: the error "val_dataset is empty" is never raised or written, and when
\* PrepareData completes the train set has been auto-split (first floor(0.8 n)
\* examples for training, the rest for validation). A present, non-empty
\* validation dataset is prepared and validated: a pair of it that lacks a field
\* fails PrepareData with an error naming val_dataset, and otherwise the
\* validation set is its Examples and the train set is the whole prepared train
\* dataset, unsplit.
C23_EmptyValLikeAbsent ==
    /\ exc.msg # ValEmptyError
    /\ \A i \in 1..Len(msgs) : IsError(msgs[i]) => msgs[i].message # ValEmptyError
    /\ ("PrepareData" \in completed /\ (EmptyVal(config) \/ ~config.val_dataset.present)) =>
         LET orig == PreparedTrain(config)
             k == (4 * Len(orig)) \div 5
         IN  /\ trainset = SubSeq(orig, 1, k)
             /\ valset = SubSeq(orig, k + 1, Len(orig))
    /\ ("PrepareData" \in completed /\ HasVal(config)) =>
         /\ trainset = PreparedTrain(config)
         /\ valset = PreparedVal(config)
    /\ ("PrepareData" \in Range(entered) /\ HasVal(config)
          /\ Offending(config.val_dataset.items) # {}) =>
         /\ failed = "PrepareData"
         /\ (HasTrain(config) /\ Offending(config.train_dataset.items) = {}) =>
               exc.msg[1] = "val_dataset"

C23_Witness ==
    /\ "PrepareData" \in completed
    /\ EmptyVal(config)
    /\ Len(config.train_dataset.items) = 2
    /\ trainset = <<Example("q1", "1")>>
    /\ valset = <<Example("q2", "2")>>
    /\ log_progress(<<"Auto-split dataset: ", "1", " train, ", "1", " val">>) \in Range(msgs)

\* a supplied validation dataset leaves the train set unsplit
C23_WitnessSupplied ==
    /\ "PrepareData" \in completed
    /\ HasVal(config)
    /\ Len(trainset) = 2
    /\ Len(valset) = 1

====
